---------------------------- MODULE Spec2Model ----------------------------
(***************************************************************************)
(* Model of the three Open WebUI document tools                            *)
(*   patches/tools/excel_spreadsheet_creator.py  (create_spreadsheet)      *)
(*   patches/tools/pdf_document_creator.py       (create_pdf)              *)
(*   patches/tools/word_document_creator.py      (create_word_document)    *)
(*                                                                         *)
(* Text is modelled as a sequence of one-character strings, so that the    *)
(* prefix tests, strip(), split() and re.sub() of the source are computed  *)
(* character by character.                                                 *)
(*                                                                         *)
(* Specifications:                                                         *)
(*   Spec          one invocation of a tool, from the first emitter call   *)
(*                 to the returned string (or the propagated exception)    *)
(*   SpecParse     the parse loop of create_pdf / create_word_document on  *)
(*                 a content of several lines                              *)
(*   SpecLine      the same loop on every one-line content over Alphabet   *)
(*   SpecSanitize  the filename sanitisation                               *)
(*   SpecCell      the numeric-cell detection of create_spreadsheet        *)
(*   SpecConc      two invocations of create_pdf / create_word_document on *)
(*                 one Tools instance, interleaved at their awaits         *)
(*   SpecSheet     the sheet loop of create_spreadsheet on one block       *)
(*   SpecWorkbook  the same loop on several blocks, and the sheet names    *)
(*                 of the returned string                                  *)
(***************************************************************************)
EXTENDS Integers, Sequences, FiniteSets, TLC

VARIABLES
    \* ---- one invocation (Spec) ----
    tool,           \* "excel" | "pdf" | "word": which Tools class is invoked
    pc,             \* position of the coroutine
    valves,         \* self.valves.WEBUI_BASE_URL
    request,        \* __request__
    event_emitter,  \* __event_emitter__ : "none" | "present"
    emitted,        \* the events the emitter has received, in order
    tmp_exists,     \* whether the file at tmp_path exists on disk
    posts,          \* number of POSTs sent to /api/v1/files/
    stored,         \* whether the storage endpoint stored a file of this call
    file_id,        \* the identifier returned by _upload_file ("" before)
    exc,            \* the exception being handled ("" when none)
    result,         \* what the caller gets
    resp_status,    \* the status of the response to the POST (0 before)
    log,            \* history of the steps taken, in order
    \* ---- the parse loop (SpecParse, SpecLine) ----
    content,        \* lines = content.split("\n")
    idx,            \* number of lines already processed
    story,          \* the records emitted to the document, in order
    bullet_items,   \* pending bullets (create_pdf only)
    table_rows,     \* pending table rows
    \* ---- pure functions (SpecSanitize, SpecCell) ----
    filename,       \* the filename argument
    safe_name,      \* the sanitised name
    value,          \* a data cell's text
    cell,           \* the worksheet cell written for it
    \* ---- two invocations on one Tools instance (SpecConc) ----
    calls,          \* the frame of each invocation: its arguments and locals
    disk,           \* the temporary directory: path -> the document saved
    storage,        \* the files the storage endpoint holds, in upload order
    \* ---- the sheets of create_spreadsheet (SpecSheet, SpecWorkbook) ----
    sheet_blocks,   \* the non-blank blocks, each block.strip().split("\n")
    include_totals, \* the include_totals argument
    block_idx,      \* number of blocks already processed
    wb,             \* the worksheets created, in order
    sheet_names     \* the names listed in the returned string

invVars   == <<tool, pc, valves, request, event_emitter, emitted, tmp_exists, posts,
               stored, file_id, exc, result, resp_status, log>>
parseVars == <<content, idx, story, bullet_items, table_rows>>
pureVars  == <<filename, safe_name, value, cell>>
concVars  == <<calls, disk, storage>>
sheetVars == <<sheet_blocks, include_totals, block_idx, wb, sheet_names>>
vars      == <<invVars, parseVars, pureVars, concVars, sheetVars>>

-----------------------------------------------------------------------------
(* Bounds *)

MaxLineLen == 4
MaxLines == 3
MaxNameLen == 4
MaxCellLen == 4
MaxDataLines == 3
MaxBlocks == 2

-----------------------------------------------------------------------------
(* Python's str operations on sequences of characters *)

\* s[n:]
Drop(s, n) == SubSeq(s, n + 1, Len(s))

\* s.startswith(p)
StartsWith(s, p) == Len(s) >= Len(p) /\ SubSeq(s, 1, Len(p)) = p

\* the characters str.strip() removes (the model's texts hold no other blank)
Whitespace == {" "}

\* s.lstrip(chars)
RECURSIVE LStripSet(_, _)
LStripSet(s, chars) ==
    IF s # <<>> /\ Head(s) \in chars THEN LStripSet(Tail(s), chars) ELSE s

\* s.rstrip(chars)
RECURSIVE RStripSet(_, _)
RStripSet(s, chars) ==
    IF s # <<>> /\ s[Len(s)] \in chars
    THEN RStripSet(SubSeq(s, 1, Len(s) - 1), chars)
    ELSE s

\* s.strip(chars)
StripSet(s, chars) == RStripSet(LStripSet(s, chars), chars)

\* s.strip()
Strip(s) == StripSet(s, Whitespace)

\* s.split(sep) for a one-character sep: always at least one piece
RECURSIVE SplitFrom(_, _, _)
SplitFrom(s, sep, cur) ==
    IF s = <<>> THEN <<cur>>
    ELSE IF Head(s) = sep THEN <<cur>> \o SplitFrom(Tail(s), sep, <<>>)
    ELSE SplitFrom(Tail(s), sep, Append(cur, Head(s)))

Split(s, sep) == SplitFrom(s, sep, <<>>)

\* set(s)
CharSet(s) == {s[i] : i \in 1..Len(s)}

\* c in s
Contains(s, c) == c \in CharSet(s)

\* all sequences over S of length 0..n
SeqsUpTo(S, n) == UNION {[1..k -> S] : k \in 0..n}

-----------------------------------------------------------------------------
(* Filename sanitisation: re.sub(r"[^\w\-]", "_", filename).strip("_") *)

Digit == {"0", "1", "2", "3", "4", "5", "6", "7", "8", "9"}

Letter ==
    { "a", "b", "c", "d", "e", "f", "g", "h", "i", "j", "k", "l", "m",
      "n", "o", "p", "q", "r", "s", "t", "u", "v", "w", "x", "y", "z",
      "A", "B", "C", "D", "E", "F", "G", "H", "I", "J", "K", "L", "M",
      "N", "O", "P", "Q", "R", "S", "T", "U", "V", "W", "X", "Y", "Z" }

\* \w of the re module, for the characters of the model
WordChar == Letter \cup Digit \cup {"_"}

\* re.sub(r"[^\w\-]", "_", s): every character outside the class becomes "_"
SubNonWord(s) ==
    [i \in 1..Len(s) |-> IF s[i] \in WordChar \cup {"-"} THEN s[i] ELSE "_"]

\* A sanitisation that forgets .strip("_").
SafeNameNoStrip(name) == SubNonWord(name)

\* safe_name = re.sub(r"[^\w\-]", "_", filename).strip("_")
SafeName(name) == StripSet(SubNonWord(name), {"_"})

\* The characters the filenames of SpecSanitize are made of.
NameAlphabet == {"a", "3", "_", "-", " ", "#", "!", "."}

\* "My Report #3!"
ExampleName == <<"M", "y", " ", "R", "e", "p", "o", "r", "t", " ", "#", "3", "!">>

-----------------------------------------------------------------------------
(* One invocation: the request, the token, the upload *)

Tool == {"excel", "pdf", "word"}

\* "Bearer "
BearerPrefix == <<"B", "e", "a", "r", "e", "r", " ">>

\* The values of the Authorization header the model draws from: a bearer
\* token, an empty bearer token, another scheme, a lower-case scheme.
AuthValues ==
    { BearerPrefix \o <<"t", "k">>,
      BearerPrefix,
      <<"B", "a", "s", "i", "c", " ", "t", "k">>,
      <<"b", "e", "a", "r", "e", "r", " ", "t", "k">> }

\* "http://h"
HostUrl == <<"h", "t", "t", "p", ":", "/", "/", "h">>

\* str(request.base_url): Starlette's ends with "/", another host object's
\* need not.
RequestBaseUrls == { HostUrl \o <<"/">>, HostUrl }

\* "https://x"
PublicUrl == <<"h", "t", "t", "p", "s", ":", "/", "/", "x">>

\* The values of the WEBUI_BASE_URL valve: its default "", an address
\* without a trailing slash, with one, with two, and a lone slash.
ValveValues ==
    { <<>>, PublicUrl, PublicUrl \o <<"/">>, PublicUrl \o <<"/", "/">>,
      <<"/">> }

\* __request__: None, an object without a headers attribute (with or
\* without a base_url attribute), a request without an Authorization
\* header, a request with one.
Requests ==
    { [kind |-> "none"],
      [kind |-> "no_headers_attr", has_base_url |-> FALSE, base_url |-> <<>>],
      [kind |-> "no_headers_attr", has_base_url |-> TRUE,
       base_url |-> HostUrl \o <<"/">>] }
    \cup { [kind |-> "request", has_auth |-> FALSE, authorization |-> <<>>,
            has_base_url |-> TRUE, base_url |-> b] : b \in RequestBaseUrls }
    \cup { [kind |-> "request", has_auth |-> TRUE, authorization |-> a,
            has_base_url |-> TRUE, base_url |-> b] :
              a \in AuthValues, b \in RequestBaseUrls }

\* "http://localhost:8080"
LocalFallback ==
    <<"h", "t", "t", "p", ":", "/", "/", "l", "o", "c", "a", "l", "h", "o",
      "s", "t", ":", "8", "0", "8", "0">>

\* A base-URL choice that asks the request first and the valve second.
GetPublicBaseUrlRequestFirst(webui_base_url, req) ==
    IF req.kind # "none" /\ req.has_base_url
    THEN RStripSet(req.base_url, {"/"})
    ELSE IF webui_base_url # <<>>
    THEN RStripSet(webui_base_url, {"/"})
    ELSE LocalFallback

\* _get_public_base_url(request)
GetPublicBaseUrl(webui_base_url, req) ==
    IF webui_base_url # <<>>
    THEN RStripSet(webui_base_url, {"/"})
    ELSE IF req.kind # "none" /\ req.has_base_url
    THEN RStripSet(req.base_url, {"/"})
    ELSE LocalFallback

\* The extension each tool appends to safe_name.
Extension(t) ==
    CASE t = "excel" -> <<".xlsx">>
      [] t = "pdf"   -> <<".pdf">>
      [] t = "word"  -> <<".docx">>

\* f"{public_url}/api/v1/files/{file_id}/content/{xlsx_filename}": the
\* fixed pieces of the path and the identifier are one element each.
DownloadUrl(public_url, id, name, t) ==
    public_url \o <<"/api/v1/files/", id, "/content/">> \o name \o Extension(t)

\* request.headers.get("Authorization", "")
HeadersGetAuthorization(req) ==
    IF req.has_auth THEN req.authorization ELSE <<>>

\* _get_token(request)
GetToken(req) ==
    IF req.kind = "request"
    THEN LET auth == HeadersGetAuthorization(req)
         IN  IF StartsWith(auth, BearerPrefix) THEN Drop(auth, 7) ELSE <<>>
    ELSE <<>>

\* The messages of the exceptions the model distinguishes (str(e)).
NoBearerMsg == "No Bearer token found in request. Check that __request__ is declared in the function signature."
NotAuthenticatedMsg == "Upload failed: not authenticated. Check that __request__ is declared in the function signature."
HTTPStatusMsg(status) ==
    IF status = 401 THEN "Client error 401 Unauthorized"
    ELSE "Server error 500 Internal Server Error"
EmitterErrorMsg == "emitter raised"
BuildErrorMsg == "document library raised"
SaveErrorMsg == "save raised"
UnlinkErrorMsg == "os.unlink raised"

\* The fixed marker each tool's failure string starts with.
FailureMarker(t) ==
    CASE t = "excel" -> "X Spreadsheet creation failed: "
      [] t = "pdf"   -> "X PDF creation failed: "
      [] t = "word"  -> "X Document creation failed: "

\* The description of the first and second status events.
BuildingText(t) ==
    CASE t = "excel" -> "Building spreadsheet..."
      [] t = "pdf"   -> "Building PDF..."
      [] t = "word"  -> "Creating Word document..."

UploadingText(t) ==
    CASE t = "excel" -> "Uploading..."
      [] t = "pdf"   -> "Uploading..."
      [] t = "word"  -> "Uploading to Open WebUI..."

StatusEvent(description, done) ==
    [type |-> "status", description |-> description, done |-> done]

\* {"type": "message", "data": {"content": "...(download_url)..."}}
MessageEvent(download_url) == [type |-> "message", content |-> download_url]

\* The HTTP status codes the storage endpoint answers with.
HTTPStatus == {200, 401, 500}

\* The identifier the endpoint returns for a stored file.
StoredId == "id-1"

NoResult == [type |-> "none"]

\* The position after the first status event: create_pdf creates the
\* temporary file before it parses, the other two build first.
AfterStart(t) == IF t = "pdf" THEN "tmp" ELSE "build"
AfterBuild(t) == IF t = "pdf" THEN "emit_uploading" ELSE "tmp"
AfterTmp(t)   == IF t = "pdf" THEN "build" ELSE "emit_uploading"

parseIdle ==
    /\ content = <<>> /\ idx = 0 /\ story = <<>> /\ bullet_items = <<>>
    /\ table_rows = <<>>

pureIdle ==
    /\ filename = <<>> /\ safe_name = <<>> /\ value = <<>>
    /\ cell = [kind |-> "none"]

concIdle ==
    /\ calls = <<>> /\ disk = {} /\ storage = <<>>

sheetIdle ==
    /\ sheet_blocks = <<>> /\ include_totals = FALSE /\ block_idx = 0
    /\ wb = <<>> /\ sheet_names = <<>>

\* the variables of Spec other than tool and pc, at rest
invIdle ==
    /\ valves = <<>>
    /\ request = [kind |-> "none"]
    /\ event_emitter = "none" /\ emitted = <<>> /\ tmp_exists = FALSE
    /\ posts = 0 /\ stored = FALSE /\ file_id = "" /\ exc = ""
    /\ result = NoResult /\ resp_status = 0 /\ log = <<>>

\* The filename arguments of Spec: "My Report #3!" and "r".
InvocationFilenames == { ExampleName, <<"r">> }

Init ==
    /\ tool \in Tool
    /\ pc = "start"
    /\ valves \in ValveValues
    /\ request \in Requests
    /\ event_emitter \in {"none", "present"}
    /\ emitted = <<>>
    /\ tmp_exists = FALSE
    /\ posts = 0
    /\ stored = FALSE
    /\ file_id = ""
    /\ exc = ""
    /\ result = NoResult
    /\ resp_status = 0
    /\ log = <<>>
    /\ parseIdle
    /\ concIdle
    /\ sheetIdle
    /\ filename \in InvocationFilenames
    /\ safe_name = <<>>
    /\ value = <<>>
    /\ cell = [kind |-> "none"]

\* raise e inside the try block: control goes to the except clause
Raise(msg) == pc' = "except" /\ exc' = msg

\* `if __event_emitter__: await __event_emitter__(ev)` inside the try block;
\* the callback is the host's and may raise.
EmitInTry(ev, next) ==
    IF event_emitter = "none"
    THEN /\ pc' = next
         /\ UNCHANGED <<emitted, exc>>
    ELSE \/ /\ emitted' = Append(emitted, ev)
            /\ pc' = next
            /\ UNCHANGED exc
         \/ /\ Raise(EmitterErrorMsg)
            /\ UNCHANGED emitted

\* The first status event.
EmitBuilding ==
    /\ pc = "start"
    /\ EmitInTry(StatusEvent(BuildingText(tool), FALSE), AfterStart(tool))
    /\ UNCHANGED <<tool, valves, request, event_emitter, tmp_exists, posts, stored,
                   file_id, result, resp_status, log>>
    /\ UNCHANGED <<parseVars, pureVars, concVars, sheetVars>>

\* Parsing and document assembly (for create_pdf, doc.build as well): the
\* document library may raise.
Build ==
    /\ pc = "build"
    /\ \/ /\ pc' = AfterBuild(tool)
          /\ UNCHANGED exc
       \/ Raise(BuildErrorMsg)
    /\ log' = Append(log, "build")
    /\ UNCHANGED <<tool, valves, request, event_emitter, emitted, tmp_exists, posts,
                   stored, file_id, result, resp_status>>
    /\ UNCHANGED <<parseVars, pureVars, concVars, sheetVars>>

\* safe_name = ...; tempfile.NamedTemporaryFile(delete=False) and, in the
\* spreadsheet and the Word tool, wb.save / doc.save inside the with block.
CreateTemp ==
    /\ pc = "tmp"
    /\ safe_name' = SafeName(filename)
    /\ tmp_exists' = TRUE
    /\ \/ /\ pc' = AfterTmp(tool)
          /\ UNCHANGED exc
       \/ /\ tool # "pdf"
          /\ Raise(SaveErrorMsg)
    /\ log' = Append(log, "tmp_create")
    /\ UNCHANGED <<tool, valves, request, event_emitter, emitted, posts, stored,
                   file_id, result, resp_status>>
    /\ UNCHANGED <<filename, value, cell>>
    /\ UNCHANGED <<parseVars, concVars, sheetVars>>

\* The second status event.
EmitUploading ==
    /\ pc = "emit_uploading"
    /\ EmitInTry(StatusEvent(UploadingText(tool), FALSE), "upload")
    /\ UNCHANGED <<tool, valves, request, event_emitter, tmp_exists, posts, stored,
                   file_id, result, resp_status, log>>
    /\ UNCHANGED <<parseVars, pureVars, concVars, sheetVars>>

\* `if not token: raise ValueError(...)` opens _upload_file of the
\* spreadsheet and the PDF tool; the Word tool's _upload_file has no such
\* test and sends the request without an Authorization header.
ChecksToken(t) == t \in {"excel", "pdf"}

\* What _upload_file raises for a response of the given status, "" if none:
\* the Word tool tests 401 itself, then all call resp.raise_for_status().
UploadError(t, status) ==
    IF t = "word" /\ status = 401 THEN NotAuthenticatedMsg
    ELSE IF status # 200 THEN HTTPStatusMsg(status)
    ELSE ""

\* token = _get_token(request); file_id = await _upload_file(...)
Upload ==
    /\ pc = "upload"
    /\ LET token == GetToken(request)
       IN  IF ChecksToken(tool) /\ token = <<>>
           THEN /\ Raise(NoBearerMsg)
                /\ log' = Append(log, "upload_called")
                /\ UNCHANGED <<posts, stored, file_id, resp_status>>
           ELSE \E status \in HTTPStatus :
                   /\ posts' = posts + 1
                   /\ resp_status' = status
                   /\ stored' = (stored \/ status = 200)
                   /\ IF UploadError(tool, status) # ""
                      THEN /\ Raise(UploadError(tool, status))
                           /\ UNCHANGED file_id
                           /\ log' = log \o <<"upload_called", "post">>
                      ELSE /\ file_id' = StoredId
                           /\ pc' = "unlink"
                           /\ UNCHANGED exc
                           /\ log' = log \o <<"upload_called", "post",
                                               "upload_returned">>
    /\ UNCHANGED <<tool, valves, request, event_emitter, emitted, tmp_exists, result>>
    /\ UNCHANGED <<parseVars, pureVars, concVars, sheetVars>>

\* A call site that forgets os.unlink(tmp_path).
UnlinkForgotten ==
    /\ pc = "unlink"
    /\ pc' = "emit_done"
    /\ UNCHANGED <<tool, valves, request, event_emitter, emitted, tmp_exists, posts,
                   stored, file_id, exc, result, resp_status, log>>
    /\ UNCHANGED <<parseVars, pureVars, concVars, sheetVars>>

\* os.unlink(tmp_path)
Unlink ==
    /\ pc = "unlink"
    /\ \/ /\ tmp_exists' = FALSE
          /\ pc' = "emit_done"
          /\ log' = Append(log, "unlink")
          /\ UNCHANGED exc
       \/ /\ Raise(UnlinkErrorMsg)
          /\ UNCHANGED <<tmp_exists, log>>
    /\ UNCHANGED <<tool, valves, request, event_emitter, emitted, posts, stored,
                   file_id, result, resp_status>>
    /\ UNCHANGED <<parseVars, pureVars, concVars, sheetVars>>

\* A call site without the "Done" status event.
EmitDoneSkipped ==
    /\ pc = "emit_done"
    /\ pc' = "emit_message"
    /\ UNCHANGED <<tool, valves, request, event_emitter, emitted, tmp_exists,
                   posts, stored, file_id, exc, result, resp_status, log>>
    /\ UNCHANGED <<parseVars, pureVars, concVars, sheetVars>>

\* The "Done" status event.
EmitDone ==
    /\ pc = "emit_done"
    /\ EmitInTry(StatusEvent("Done", TRUE), "emit_message")
    /\ UNCHANGED <<tool, valves, request, event_emitter, tmp_exists, posts, stored,
                   file_id, result, resp_status, log>>
    /\ UNCHANGED <<parseVars, pureVars, concVars, sheetVars>>

\* The message event carrying the download link.
EmitMessage ==
    /\ pc = "emit_message"
    /\ EmitInTry(MessageEvent(DownloadUrl(GetPublicBaseUrl(valves, request),
                                           file_id, safe_name, tool)),
                 "return")
    /\ UNCHANGED <<tool, valves, request, event_emitter, tmp_exists, posts, stored,
                   file_id, result, resp_status, log>>
    /\ UNCHANGED <<parseVars, pureVars, concVars, sheetVars>>

\* return f"[Download ...](...)": the success string
ReturnSuccess ==
    /\ pc = "return"
    /\ result' = [type |-> "success", file_id |-> file_id,
                   download_url |->
                       DownloadUrl(GetPublicBaseUrl(valves, request),
                                   file_id, safe_name, tool)]
    /\ pc' = "done"
    /\ log' = Append(log, "return")
    /\ UNCHANGED <<tool, valves, request, event_emitter, emitted, tmp_exists, posts,
                   stored, file_id, exc, resp_status>>
    /\ UNCHANGED <<parseVars, pureVars, concVars, sheetVars>>

\* The Word tool's except clause awaits the emitter before it returns.
HandlerEmits(t) == t = "word"

FailureResult(t, msg) == [type |-> "failure", marker |-> FailureMarker(t), msg |-> msg]

\* An except clause that removes the temporary file before it returns.
ExceptWithCleanup ==
    /\ pc = "except"
    /\ pc' = "done"
    /\ tmp_exists' = FALSE
    /\ result' = FailureResult(tool, exc)
    /\ log' = Append(log, "return")
    /\ UNCHANGED <<tool, valves, request, event_emitter, emitted, posts, stored,
                   file_id, exc, resp_status>>
    /\ UNCHANGED <<parseVars, pureVars, concVars, sheetVars>>

\* except Exception as e: ... return f"<marker>{str(e)}"
Except ==
    /\ pc = "except"
    /\ pc' = "done"
    /\ IF HandlerEmits(tool) /\ event_emitter = "present"
       THEN \/ /\ emitted' = Append(emitted, StatusEvent(<<"Error", exc>>, TRUE))
               /\ result' = FailureResult(tool, exc)
            \/ /\ result' = [type |-> "raised", msg |-> EmitterErrorMsg]
               /\ UNCHANGED emitted
       ELSE /\ result' = FailureResult(tool, exc)
            /\ UNCHANGED emitted
    /\ log' = Append(log, "return")
    /\ UNCHANGED <<tool, valves, request, event_emitter, tmp_exists, posts, stored,
                   file_id, exc, resp_status>>
    /\ UNCHANGED <<parseVars, pureVars, concVars, sheetVars>>

Next ==
    \/ EmitBuilding
    \/ Build
    \/ CreateTemp
    \/ EmitUploading
    \/ Upload
    \/ Unlink
    \/ EmitDone
    \/ EmitMessage
    \/ ReturnSuccess
    \/ Except

Spec == Init /\ [][Next]_vars

-----------------------------------------------------------------------------
(* The parse loop of create_pdf and create_word_document *)

\* The records the loop appends to the document (story / doc). Every record
\* made from an input line carries that line's number in src (srcs for a
\* table), which the program does not store.
Heading(level, text, n) ==
    [type |-> "heading", level |-> level, text |-> text, src |-> n]
Bullet(text, n) == [type |-> "bullet", text |-> text, src |-> n]
Numbered(text, n) == [type |-> "numbered", text |-> text, src |-> n]
Divider(n) == [type |-> "divider", src |-> n]
PageBreak(n) == [type |-> "page_break", src |-> n]
Paragraph(text, n) == [type |-> "paragraph", text |-> text, src |-> n]
TableRecord(grid, ns) == [type |-> "table", rows |-> grid, srcs |-> ns]
\* Spacer(...) of the PDF tool, doc.add_paragraph() after a Word table
Spacer == [type |-> "spacer"]
EmptyParagraph == [type |-> "empty_paragraph"]

\* [c.strip() for c in line.strip("|").split("|")]
Cells(line) ==
    LET parts == Split(StripSet(line, {"|"}), "|")
    IN  [i \in 1..Len(parts) |-> Strip(parts[i])]

\* all(set(c) <= set("-| ") for c in cells)
IsSeparatorRow(cells) ==
    \A i \in 1..Len(cells) : CharSet(cells[i]) \subseteq {"-", "|", " "}

\* max(len(r) for r in rows)
RECURSIVE MaxLen(_)
MaxLen(rows) ==
    IF rows = <<>> THEN 0
    ELSE LET m == MaxLen(Tail(rows))
         IN  IF Len(Head(rows)) > m THEN Len(Head(rows)) ELSE m

\* r + [""] * (col_count - len(r))
PadRow(r, col_count) ==
    [c \in 1..col_count |-> IF c <= Len(r) THEN r[c] ELSE <<>>]

\* A flush that keeps the rows as they are.
PaddedNoPadding(rows) == rows

\* padded = [r + [""] * (col_count - len(r)) for r in table_rows]
Padded(rows) ==
    [r \in 1..Len(rows) |-> PadRow(rows[r], MaxLen(rows))]

\* doc.add_table(rows=len(rows), cols=col_count) gives a grid of empty
\* cells; table.cell(r_idx, c_idx).text = cell_text fills the cells each
\* row has.
WordGrid(rows) ==
    LET col_count == MaxLen(rows)
        empty == [r \in 1..Len(rows) |-> [c \in 1..col_count |-> <<>>]]
    IN  [r \in 1..Len(rows) |->
            [c \in 1..col_count |->
                IF c <= Len(rows[r]) THEN rows[r][c] ELSE empty[r][c]]]

RowCells(pending) == [i \in 1..Len(pending) |-> pending[i].cells]
RowSrcs(pending) == [i \in 1..Len(pending) |-> pending[i].src]

\* flush_bullets() of create_pdf: the story after it
FlushBullets(st, items) ==
    st \o [i \in 1..Len(items) |-> Bullet(items[i].text, items[i].src)]
       \o (IF items # <<>> THEN <<Spacer>> ELSE <<>>)

\* flush_table() of create_pdf: the story after it
FlushTable(st, pending) ==
    IF pending = <<>> THEN st
    ELSE st \o <<TableRecord(Padded(RowCells(pending)), RowSrcs(pending)),
                 Spacer>>

\* Tools._flush_table(doc, rows) of the Word tool: the document after it
WordFlushTable(st, pending) ==
    IF pending = <<>> THEN st
    ELSE st \o <<TableRecord(WordGrid(RowCells(pending)), RowSrcs(pending)),
                 EmptyParagraph>>

\* A chain that takes "***" for a divider as well.
PdfBranchStarsDivider(line) ==
    IF StartsWith(line, <<"#", " ">>) THEN "h1"
    ELSE IF StartsWith(line, <<"#", "#", " ">>) THEN "h2"
    ELSE IF StartsWith(line, <<"#", "#", "#", " ">>) THEN "h3"
    ELSE IF StartsWith(line, <<"-", " ">>) \/ StartsWith(line, <<"*", " ">>)
         THEN "bullet"
    ELSE IF StartsWith(line, <<"|">>) THEN "table"
    ELSE IF Strip(line) \in {<<"-", "-", "-">>, <<"*", "*", "*">>} THEN "divider"
    ELSE IF Strip(line) = <<"=", "=", "=">> THEN "page_break"
    ELSE IF Strip(line) # <<>> THEN "paragraph"
    ELSE "blank"

\* The if/elif chain of create_pdf's loop: the branch a line takes.
PdfBranch(line) ==
    IF StartsWith(line, <<"#", " ">>) THEN "h1"
    ELSE IF StartsWith(line, <<"#", "#", " ">>) THEN "h2"
    ELSE IF StartsWith(line, <<"#", "#", "#", " ">>) THEN "h3"
    ELSE IF StartsWith(line, <<"-", " ">>) \/ StartsWith(line, <<"*", " ">>)
         THEN "bullet"
    ELSE IF StartsWith(line, <<"|">>) THEN "table"
    ELSE IF Strip(line) = <<"-", "-", "-">> THEN "divider"
    ELSE IF Strip(line) = <<"=", "=", "=">> THEN "page_break"
    ELSE IF Strip(line) # <<>> THEN "paragraph"
    ELSE "blank"

\* The if/elif chain of create_word_document's loop.
WordBranch(line) ==
    IF StartsWith(line, <<"#", " ">>) THEN "h1"
    ELSE IF StartsWith(line, <<"#", "#", " ">>) THEN "h2"
    ELSE IF StartsWith(line, <<"#", "#", "#", " ">>) THEN "h3"
    ELSE IF StartsWith(line, <<"-", " ">>) \/ StartsWith(line, <<"*", " ">>)
         THEN "bullet"
    ELSE IF /\ Len(line) > 2
            /\ line[1] \in Digit
            /\ line[2] \in {".", ")"}
            /\ line[3] = " "
         THEN "numbered"
    ELSE IF StartsWith(line, <<"|">>) THEN "table"
    ELSE IF Strip(line) \in {<<"-", "-", "-">>, <<"*", "*", "*">>,
                             <<"_", "_", "_">>}
         THEN "page_break"
    ELSE IF Strip(line) # <<>> THEN "paragraph"
    ELSE "blank"

HeadingLevel(branch) ==
    CASE branch = "h1" -> 1 [] branch = "h2" -> 2 [] branch = "h3" -> 3

\* A table line that leaves the pending bullets where they are.
PdfTableLineKeepsBullets(line, n) ==
    /\ story' = story
    /\ bullet_items' = bullet_items
    /\ table_rows' =
          IF IsSeparatorRow(Cells(line)) THEN table_rows
          ELSE Append(table_rows, [cells |-> Cells(line), src |-> n])

\* create_pdf, the branch of a line that starts with "|"
PdfTableLine(line, n) ==
    /\ story' = FlushBullets(story, bullet_items)
    /\ bullet_items' = <<>>
    /\ table_rows' =
          IF IsSeparatorRow(Cells(line)) THEN table_rows
          ELSE Append(table_rows, [cells |-> Cells(line), src |-> n])

\* One iteration of `for line in lines` of create_pdf, on line number n.
PdfLine(line, n) ==
    LET branch == PdfBranch(line)
        flushed == FlushTable(FlushBullets(story, bullet_items), table_rows)
    IN  CASE branch \in {"h1", "h2", "h3"} ->
               /\ story' = Append(flushed,
                     Heading(HeadingLevel(branch),
                             Strip(Drop(line, HeadingLevel(branch) + 1)), n))
               /\ bullet_items' = <<>>
               /\ table_rows' = <<>>
          [] branch = "bullet" ->
               /\ story' = FlushTable(story, table_rows)
               /\ table_rows' = <<>>
               /\ bullet_items' =
                     Append(bullet_items, [text |-> Strip(Drop(line, 2)), src |-> n])
          [] branch = "table" -> PdfTableLine(line, n)
          [] branch = "divider" ->
               /\ story' = flushed \o <<Divider(n), Spacer>>
               /\ bullet_items' = <<>>
               /\ table_rows' = <<>>
          [] branch = "page_break" ->
               /\ story' = Append(flushed, PageBreak(n))
               /\ bullet_items' = <<>>
               /\ table_rows' = <<>>
          [] branch = "paragraph" ->
               /\ story' = Append(flushed, Paragraph(Strip(line), n))
               /\ bullet_items' = <<>>
               /\ table_rows' = <<>>
          [] branch = "blank" ->
               UNCHANGED <<story, bullet_items, table_rows>>

\* One iteration of `for line in lines` of create_word_document. The Word
\* tool has no pending bullets: a bullet is a paragraph of its own.
WordLine(line, n) ==
    LET branch == WordBranch(line)
        flushed == WordFlushTable(story, table_rows)
    IN  /\ UNCHANGED bullet_items
        /\ CASE branch \in {"h1", "h2", "h3"} ->
                  /\ story' = Append(flushed,
                        Heading(HeadingLevel(branch),
                                Strip(Drop(line, HeadingLevel(branch) + 1)), n))
                  /\ table_rows' = <<>>
             [] branch = "bullet" ->
                  /\ story' = Append(flushed, Bullet(Strip(Drop(line, 2)), n))
                  /\ table_rows' = <<>>
             [] branch = "numbered" ->
                  /\ story' = Append(flushed, Numbered(Strip(Drop(line, 3)), n))
                  /\ table_rows' = <<>>
             [] branch = "table" ->
                  /\ story' = story
                  /\ table_rows' =
                        IF IsSeparatorRow(Cells(line)) THEN table_rows
                        ELSE Append(table_rows, [cells |-> Cells(line), src |-> n])
             [] branch = "page_break" ->
                  /\ story' = Append(flushed, PageBreak(n))
                  /\ table_rows' = <<>>
             [] branch = "paragraph" ->
                  /\ story' = Append(flushed, Paragraph(Strip(line), n))
                  /\ table_rows' = <<>>
             [] branch = "blank" ->
                  UNCHANGED <<story, table_rows>>

\* The loop body, for the next line of the content.
ParseLine ==
    /\ pc = "parse"
    /\ idx < Len(content)
    /\ idx' = idx + 1
    /\ IF tool = "pdf"
       THEN PdfLine(content[idx + 1], idx + 1)
       ELSE WordLine(content[idx + 1], idx + 1)
    /\ UNCHANGED <<tool, pc, content>>
    /\ UNCHANGED <<valves, request, event_emitter, emitted, tmp_exists, posts, stored,
                   file_id, exc, result, resp_status, log>>
    /\ UNCHANGED <<pureVars, concVars, sheetVars>>

\* After the loop: flush_bullets(); flush_table() in create_pdf,
\* self._flush_table(doc, table_rows) in create_word_document (which leaves
\* its list as it is).
EndOfInput ==
    /\ pc = "parse"
    /\ idx = Len(content)
    /\ pc' = "parsed"
    /\ IF tool = "pdf"
       THEN /\ story' = FlushTable(FlushBullets(story, bullet_items), table_rows)
            /\ bullet_items' = <<>>
            /\ table_rows' = <<>>
       ELSE /\ story' = WordFlushTable(story, table_rows)
            /\ UNCHANGED <<bullet_items, table_rows>>
    /\ UNCHANGED <<tool, content, idx>>
    /\ UNCHANGED <<valves, request, event_emitter, emitted, tmp_exists, posts, stored,
                   file_id, exc, result, resp_status, log>>
    /\ UNCHANGED <<pureVars, concVars, sheetVars>>

NextParse == ParseLine \/ EndOfInput

\* The lines the contents of SpecParse are made of.
ParseLines ==
    { <<"#", " ", "T">>,
      <<"-", " ", "a">>,
      <<"*", " ", "b">>,
      <<"1", ".", " ", "c">>,
      <<"|", "a", "|", "b", "|">>,
      <<"|", "c", "|">>,
      <<"|", "-", "|", "-", "|">>,
      <<"-", "-", "-">>,
      <<"=", "=", "=">>,
      <<"p">>,
      <<" ">>,
      <<>> }

\* content.split("\n") has at least one line: "".split("\n") is [""].
\* "# Title\n- item one\n- item two\n| A | B |\n| 1 | 2 |".split("\n")
ExampleContent ==
    << <<"#", " ", "T", "i", "t", "l", "e">>,
       <<"-", " ", "i", "t", "e", "m", " ", "o", "n", "e">>,
       <<"-", " ", "i", "t", "e", "m", " ", "t", "w", "o">>,
       <<"|", " ", "A", " ", "|", " ", "B", " ", "|">>,
       <<"|", " ", "1", " ", "|", " ", "2", " ", "|">> >>

InitParse ==
    /\ tool \in {"pdf", "word"}
    /\ pc = "parse"
    /\ invIdle
    /\ content \in (SeqsUpTo(ParseLines, MaxLines) \ {<<>>}) \cup {ExampleContent}
    /\ idx = 0
    /\ story = <<>>
    /\ bullet_items = <<>>
    /\ table_rows = <<>>
    /\ pureIdle
    /\ concIdle
    /\ sheetIdle

SpecParse == InitParse /\ [][NextParse]_vars

\* The characters the one-line contents of SpecLine are made of.
Alphabet == {"#", " ", "-", "*", "|", "1", ".", ")", "=", "_", "a"}

InitLine ==
    /\ tool \in {"pdf", "word"}
    /\ pc = "parse"
    /\ invIdle
    /\ content \in {<<l>> : l \in SeqsUpTo(Alphabet, MaxLineLen)}
    /\ idx = 0
    /\ story = <<>>
    /\ bullet_items = <<>>
    /\ table_rows = <<>>
    /\ pureIdle
    /\ concIdle
    /\ sheetIdle

SpecLine == InitLine /\ [][NextParse]_vars

-----------------------------------------------------------------------------
(* The specifications of the filename sanitisation *)

InitSanitize ==
    /\ tool \in Tool
    /\ pc = "sanitize"
    /\ invIdle
    /\ parseIdle
    /\ concIdle
    /\ sheetIdle
    /\ filename \in SeqsUpTo(NameAlphabet, MaxNameLen) \cup {ExampleName}
    /\ safe_name = <<>>
    /\ value = <<>>
    /\ cell = [kind |-> "none"]

\* The assignment of safe_name in each of the three tools.
Sanitize ==
    /\ pc = "sanitize"
    /\ safe_name' = SafeName(filename)
    /\ pc' = "sanitized"
    /\ UNCHANGED <<tool, valves, request, event_emitter, emitted, tmp_exists, posts,
                   stored, file_id, exc, result, resp_status, log>>
    /\ UNCHANGED <<filename, value, cell>>
    /\ UNCHANGED <<parseVars, concVars, sheetVars>>

SpecSanitize == InitSanitize /\ [][Sanitize]_vars

-----------------------------------------------------------------------------
(* Numeric-cell detection of create_spreadsheet *)

DigitValue ==
    [c \in Digit |->
        CASE c = "0" -> 0 [] c = "1" -> 1 [] c = "2" -> 2 [] c = "3" -> 3
          [] c = "4" -> 4 [] c = "5" -> 5 [] c = "6" -> 6 [] c = "7" -> 7
          [] c = "8" -> 8 [] c = "9" -> 9]

RECURSIVE Pow10(_)
Pow10(n) == IF n = 0 THEN 1 ELSE 10 * Pow10(n - 1)

\* the value of a run of decimal digits
RECURSIVE DigitsValue(_)
DigitsValue(ds) ==
    IF ds = <<>> THEN 0
    ELSE 10 * DigitsValue(SubSeq(ds, 1, Len(ds) - 1)) + DigitValue[ds[Len(ds)]]

AllDigits(ds) == \A i \in 1..Len(ds) : ds[i] \in Digit

\* value.replace(",", "").replace("$", "").replace("%", "")
Clean(v) == SelectSeq(v, LAMBDA c : c \notin {",", "$", "%"})

\* The text float() reads: surrounding blanks dropped, an optional sign taken
\* off. (The texts of the model hold no exponent, "inf", "nan" or "_".)
Unsigned(text) ==
    LET t == Strip(text)
    IN  IF t # <<>> /\ Head(t) \in {"+", "-"} THEN Tail(t) ELSE t

IsNegative(text) == Strip(text) # <<>> /\ Head(Strip(text)) = "-"

\* whether float(text) succeeds: digits with at most one point and at least
\* one digit
FloatParses(text) ==
    LET u == Unsigned(text)
        parts == Split(u, ".")
    IN  /\ Len(parts) <= 2
        /\ \A i \in 1..Len(parts) : AllDigits(parts[i])
        /\ \E i \in 1..Len(parts) : parts[i] # <<>>

\* float(text) as a decimal: mant / 10^scale
Float(text) ==
    LET u == Unsigned(text)
        parts == Split(u, ".")
        frac == IF Len(parts) = 2 THEN parts[2] ELSE <<>>
        m == DigitsValue(parts[1] \o frac)
    IN  [mant |-> IF IsNegative(text) THEN 0 - m ELSE m, scale |-> Len(frac)]

\* num / 100
DivideBy100(num) == [mant |-> num.mant, scale |-> num.scale + 2]

\* A percentage stored as written, without the division.
PercentValueUndivided(num) == num

\* cell.value = num / 100 of the "%" branch
PercentValue(num) == DivideBy100(num)

CurrencyFormat == "$#,##0.00"
PercentFormat == "0.00%"
NumberFormat == "#,##0.##"

\* The try/except of the data loop: the cell written for the text v.
DetectCell(v) ==
    LET clean == Clean(v)
    IN  IF FloatParses(clean)
        THEN LET num == Float(clean)
             IN  IF Contains(v, "$")
                 THEN [kind |-> "number", value |-> num,
                       number_format |-> CurrencyFormat]
                 ELSE IF Contains(v, "%")
                 THEN [kind |-> "number", value |-> PercentValue(num),
                       number_format |-> PercentFormat]
                 ELSE [kind |-> "number", value |-> num,
                       number_format |-> NumberFormat]
        ELSE [kind |-> "string", value |-> v]

\* The characters the cell texts of SpecCell are made of.
CellAlphabet == {"1", "5", "0", "$", "%", ",", ".", "-", " ", "N"}

\* "$1,234.50", "12%", "N/A"
ExampleCurrency == <<"$", "1", ",", "2", "3", "4", ".", "5", "0">>
ExamplePercent == <<"1", "2", "%">>
ExampleText == <<"N", "/", "A">>

\* A cell text is c.strip() of a piece of the line: it has no blank at
\* either end.
CellTexts ==
    {v \in SeqsUpTo(CellAlphabet, MaxCellLen) : Strip(v) = v}
    \cup {ExampleCurrency, ExamplePercent, ExampleText}

InitCell ==
    /\ tool = "excel"
    /\ pc = "cell"
    /\ invIdle
    /\ parseIdle
    /\ concIdle
    /\ sheetIdle
    /\ filename = <<>>
    /\ safe_name = <<>>
    /\ value \in CellTexts
    /\ cell = [kind |-> "none"]

\* The body of `for col_idx, value in enumerate(row, 1)` for one cell.
WriteCell ==
    /\ pc = "cell"
    /\ cell' = DetectCell(value)
    /\ pc' = "cell_written"
    /\ UNCHANGED <<tool, valves, request, event_emitter, emitted, tmp_exists, posts,
                   stored, file_id, exc, result, resp_status, log>>
    /\ UNCHANGED <<filename, safe_name, value>>
    /\ UNCHANGED <<parseVars, concVars, sheetVars>>

SpecCell == InitCell /\ [][WriteCell]_vars

-----------------------------------------------------------------------------
(* The parse loop as a function of its locals *)

Locals(st, bullets, rows) ==
    [story |-> st, bullet_items |-> bullets, table_rows |-> rows]

\* The locals after one iteration of create_pdf's loop on line number n.
PdfAfter(loc, line, n) ==
    LET branch == PdfBranch(line)
        flushed == FlushTable(FlushBullets(loc.story, loc.bullet_items),
                              loc.table_rows)
    IN  CASE branch \in {"h1", "h2", "h3"} ->
               Locals(Append(flushed,
                          Heading(HeadingLevel(branch),
                                  Strip(Drop(line, HeadingLevel(branch) + 1)), n)),
                      <<>>, <<>>)
          [] branch = "bullet" ->
               Locals(FlushTable(loc.story, loc.table_rows),
                      Append(loc.bullet_items,
                             [text |-> Strip(Drop(line, 2)), src |-> n]),
                      <<>>)
          [] branch = "table" ->
               Locals(FlushBullets(loc.story, loc.bullet_items),
                      <<>>,
                      IF IsSeparatorRow(Cells(line)) THEN loc.table_rows
                      ELSE Append(loc.table_rows,
                                  [cells |-> Cells(line), src |-> n]))
          [] branch = "divider" ->
               Locals(flushed \o <<Divider(n), Spacer>>, <<>>, <<>>)
          [] branch = "page_break" ->
               Locals(Append(flushed, PageBreak(n)), <<>>, <<>>)
          [] branch = "paragraph" ->
               Locals(Append(flushed, Paragraph(Strip(line), n)), <<>>, <<>>)
          [] branch = "blank" -> loc

\* The locals after one iteration of create_word_document's loop.
WordAfter(loc, line, n) ==
    LET branch == WordBranch(line)
        flushed == WordFlushTable(loc.story, loc.table_rows)
    IN  CASE branch \in {"h1", "h2", "h3"} ->
               Locals(Append(flushed,
                          Heading(HeadingLevel(branch),
                                  Strip(Drop(line, HeadingLevel(branch) + 1)), n)),
                      loc.bullet_items, <<>>)
          [] branch = "bullet" ->
               Locals(Append(flushed, Bullet(Strip(Drop(line, 2)), n)),
                      loc.bullet_items, <<>>)
          [] branch = "numbered" ->
               Locals(Append(flushed, Numbered(Strip(Drop(line, 3)), n)),
                      loc.bullet_items, <<>>)
          [] branch = "table" ->
               Locals(loc.story, loc.bullet_items,
                      IF IsSeparatorRow(Cells(line)) THEN loc.table_rows
                      ELSE Append(loc.table_rows,
                                  [cells |-> Cells(line), src |-> n]))
          [] branch = "page_break" ->
               Locals(Append(flushed, PageBreak(n)), loc.bullet_items, <<>>)
          [] branch = "paragraph" ->
               Locals(Append(flushed, Paragraph(Strip(line), n)),
                      loc.bullet_items, <<>>)
          [] branch = "blank" -> loc

\* The locals after the first k lines.
RECURSIVE ParsePrefix(_, _, _)
ParsePrefix(t, lines, k) ==
    IF k = 0 THEN Locals(<<>>, <<>>, <<>>)
    ELSE IF t = "pdf"
    THEN PdfAfter(ParsePrefix(t, lines, k - 1), lines[k], k)
    ELSE WordAfter(ParsePrefix(t, lines, k - 1), lines[k], k)

\* The locals after the loop and the flushes that follow it.
ParseAll(t, lines) ==
    LET loc == ParsePrefix(t, lines, Len(lines))
    IN  IF t = "pdf"
        THEN Locals(FlushTable(FlushBullets(loc.story, loc.bullet_items),
                               loc.table_rows),
                    <<>>, <<>>)
        ELSE Locals(WordFlushTable(loc.story, loc.table_rows),
                    loc.bullet_items, loc.table_rows)

\* The loop of SpecParse computes what ParsePrefix and ParseAll compute.
LoopAgrees ==
    /\ pc = "parse" =>
          Locals(story, bullet_items, table_rows)
              = ParsePrefix(tool, content, idx)
    /\ pc = "parsed" =>
          Locals(story, bullet_items, table_rows) = ParseAll(tool, content)

-----------------------------------------------------------------------------
(* Two invocations of one tool on one Tools instance (SpecConc)             *)
(* A coroutine runs without interruption from one await to the next: each  *)
(* action is the code between two suspension points.                       *)

Invocation == {1, 2}

\* The names tempfile.NamedTemporaryFile draws from.
TmpNames == {"tmp-1", "tmp-2"}

\* A temporary file under a name that may be taken.
FreshNamesAnyName(files) == TmpNames

\* tempfile.NamedTemporaryFile(delete=False, ...): a name no file has
FreshNames(files) == TmpNames \ {f.path : f \in files}

\* open(tmp_path, "rb"), os.unlink(tmp_path): the file at a path
FilesAt(files, path) == {f \in files : f.path = path}

\* doc.build(story) / doc.save(tmp_path): the file's content is replaced
Saved(files, path, document) ==
    (files \ FilesAt(files, path)) \cup {[path |-> path, document |-> document]}

\* The identifiers the storage endpoint gives, in upload order.
ServerIds == <<"id-1", "id-2">>

FileNotFoundMsg == "No such file or directory"

\* The contents, requests and answers the two invocations draw from.
ConcContents ==
    { << <<"-", " ", "a">>, <<"|", "c", "|">>, <<"p">> >>,
      << <<"|", "a", "|", "b", "|">> >> }

ConcRequests ==
    { [kind |-> "none"],
      [kind |-> "request", has_auth |-> TRUE,
       authorization |-> BearerPrefix \o <<"t", "k">>,
       has_base_url |-> TRUE, base_url |-> HostUrl \o <<"/">>] }

ConcStatus == {200, 500}

\* The frame of an invocation at its call: the arguments, the answer the
\* storage endpoint will give to its POST, and the locals not yet assigned.
Frames ==
    [ pc : {"start"},
      content : ConcContents,
      filename : {<<"r">>},
      request : ConcRequests,
      event_emitter : {"none", "present"},
      status : ConcStatus,
      tmp_path : {""},
      locals : {Locals(<<>>, <<>>, <<>>)},
      body : {<<>>},
      emitted : {<<>>},
      file_id : {""},
      exc : {""},
      result : {NoResult} ]

InitConc ==
    /\ tool \in {"pdf", "word"}
    /\ pc = "calls"
    /\ valves \in {<<>>, PublicUrl \o <<"/">>}
    /\ request = [kind |-> "none"]
    /\ event_emitter = "none" /\ emitted = <<>> /\ tmp_exists = FALSE
    /\ posts = 0 /\ stored = FALSE /\ file_id = "" /\ exc = ""
    /\ result = NoResult /\ resp_status = 0 /\ log = <<>>
    /\ parseIdle
    /\ pureIdle
    /\ sheetIdle
    /\ calls \in [Invocation -> Frames]
    /\ disk = {}
    /\ storage = <<>>

\* the frame of p after an assignment to some of its locals
With(p, changes) ==
    [calls EXCEPT ![p] =
        [k \in DOMAIN calls[p] |->
            IF k \in DOMAIN changes THEN changes[k] ELSE calls[p][k]]]

concRest ==
    /\ UNCHANGED <<invVars, parseVars, pureVars, sheetVars>>

\* `if __event_emitter__: await __event_emitter__(ev)` of invocation p
CallEmit(p, ev, next) ==
    /\ calls' = With(p, [pc |-> next,
                         emitted |-> IF calls[p].event_emitter = "none"
                                     THEN calls[p].emitted
                                     ELSE Append(calls[p].emitted, ev)])
    /\ UNCHANGED <<disk, storage>>
    /\ concRest

\* the link of invocation p
CallDownloadUrl(p) ==
    DownloadUrl(GetPublicBaseUrl(valves, calls[p].request), calls[p].file_id,
                SafeName(calls[p].filename), tool)

\* The first status event.
CallEmitBuilding(p) ==
    /\ calls[p].pc = "start"
    /\ CallEmit(p, StatusEvent(BuildingText(tool), FALSE), "build")

\* From the first await to the second: the temporary file, the parse loop
\* with its own story and pending lists, doc.build / doc.save.
CallBuild(p) ==
    /\ calls[p].pc = "build"
    /\ \E path \in FreshNames(disk) :
          LET loc == ParseAll(tool, calls[p].content)
          IN  /\ calls' = With(p, [pc |-> "emit_uploading", tmp_path |-> path,
                                   locals |-> loc])
              /\ disk' = Saved(disk, path, loc.story)
    /\ UNCHANGED storage
    /\ concRest

\* The second status event.
CallEmitUploading(p) ==
    /\ calls[p].pc = "emit_uploading"
    /\ CallEmit(p, StatusEvent(UploadingText(tool), FALSE), "upload")

\* _get_token, then _upload_file up to `await client.post(...)`: the token
\* test, open(tmp_path, "rb"), the request leaves with the file's content.
CallUploadSend(p) ==
    /\ calls[p].pc = "upload"
    /\ IF ChecksToken(tool) /\ GetToken(calls[p].request) = <<>>
       THEN calls' = With(p, [pc |-> "except", exc |-> NoBearerMsg])
       ELSE IF FilesAt(disk, calls[p].tmp_path) = {}
       THEN calls' = With(p, [pc |-> "except", exc |-> FileNotFoundMsg])
       ELSE \E f \in FilesAt(disk, calls[p].tmp_path) :
               calls' = With(p, [pc |-> "posted", body |-> f.document])
    /\ UNCHANGED <<disk, storage>>
    /\ concRest

\* The response arrives: raise_for_status(), resp.json()["id"].
CallUploadReturn(p) ==
    /\ calls[p].pc = "posted"
    /\ IF UploadError(tool, calls[p].status) # ""
       THEN /\ calls' = With(p, [pc |-> "except",
                                 exc |-> UploadError(tool, calls[p].status)])
            /\ UNCHANGED storage
       ELSE /\ storage' = Append(storage, [by |-> p, body |-> calls[p].body])
            /\ calls' = With(p, [pc |-> "unlink",
                                 file_id |-> ServerIds[Len(storage) + 1]])
    /\ UNCHANGED disk
    /\ concRest

\* os.unlink(tmp_path)
CallUnlink(p) ==
    /\ calls[p].pc = "unlink"
    /\ IF FilesAt(disk, calls[p].tmp_path) = {}
       THEN /\ calls' = With(p, [pc |-> "except", exc |-> FileNotFoundMsg])
            /\ UNCHANGED disk
       ELSE /\ disk' = disk \ FilesAt(disk, calls[p].tmp_path)
            /\ calls' = With(p, [pc |-> "emit_done"])
    /\ UNCHANGED storage
    /\ concRest

\* The "Done" status event.
CallEmitDone(p) ==
    /\ calls[p].pc = "emit_done"
    /\ CallEmit(p, StatusEvent("Done", TRUE), "emit_message")

\* The message event carrying the download link.
CallEmitMessage(p) ==
    /\ calls[p].pc = "emit_message"
    /\ CallEmit(p, MessageEvent(CallDownloadUrl(p)), "return")

\* return f"[Download ...](...)"
CallReturn(p) ==
    /\ calls[p].pc = "return"
    /\ calls' = With(p, [pc |-> "done",
                         result |-> [type |-> "success",
                                     file_id |-> calls[p].file_id,
                                     download_url |-> CallDownloadUrl(p)]])
    /\ UNCHANGED <<disk, storage>>
    /\ concRest

\* except Exception as e: the Word tool emits a status, all return the
\* failure string.
CallExcept(p) ==
    /\ calls[p].pc = "except"
    /\ calls' = With(p, [pc |-> "done",
                         result |-> FailureResult(tool, calls[p].exc),
                         emitted |->
                             IF HandlerEmits(tool)
                                /\ calls[p].event_emitter = "present"
                             THEN Append(calls[p].emitted,
                                     StatusEvent(<<"Error", calls[p].exc>>, TRUE))
                             ELSE calls[p].emitted])
    /\ UNCHANGED <<disk, storage>>
    /\ concRest

NextConc ==
    \E p \in Invocation :
        \/ CallEmitBuilding(p)
        \/ CallBuild(p)
        \/ CallEmitUploading(p)
        \/ CallUploadSend(p)
        \/ CallUploadReturn(p)
        \/ CallUnlink(p)
        \/ CallEmitDone(p)
        \/ CallEmitMessage(p)
        \/ CallReturn(p)
        \/ CallExcept(p)

SpecConc == InitConc /\ [][NextConc]_vars

-----------------------------------------------------------------------------
(* The sheets of create_spreadsheet (SpecSheet, SpecWorkbook) *)

\* the [:31] of sheet_name
TitleMax == 31

\* s.replace(sub, "")
RECURSIVE RemoveAll(_, _)
RemoveAll(s, sub) ==
    IF Len(s) < Len(sub) THEN s
    ELSE IF StartsWith(s, sub) THEN RemoveAll(Drop(s, Len(sub)), sub)
    ELSE <<Head(s)>> \o RemoveAll(Tail(s), sub)

\* s[:n]
Take(s, n) == SubSeq(s, 1, IF Len(s) < n THEN Len(s) ELSE n)

TripleEquals == <<"=", "=", "=">>

\* sheet_name = lines[0].replace("===", "").strip()[:31]
SheetName(lines) == Take(Strip(RemoveAll(lines[1], TripleEquals)), TitleMax)

\* data_lines = [l for l in lines[1:] if l.strip()]
NonBlank(l) == Strip(l) # <<>>
DataLines(lines) == SelectSeq(Tail(lines), NonBlank)

\* delimiter = "|" if "|" in data_lines[0] else ","
Delimiter(data_lines) == IF Contains(data_lines[1], "|") THEN "|" ELSE ","

\* all_rows = [[c.strip() for c in l.split(delimiter)] for l in data_lines]
AllRows(data_lines) ==
    [i \in 1..Len(data_lines) |->
        LET pieces == Split(data_lines[i], Delimiter(data_lines))
        IN  [c \in 1..Len(pieces) |-> Strip(pieces[c])]]

\* numeric_cols after the data loop: the columns in which float() accepted
\* a cell
NumericCols(data_rows) ==
    { c \in UNION {1..Len(data_rows[r]) : r \in 1..Len(data_rows)} :
         \E r \in 1..Len(data_rows) :
            c <= Len(data_rows[r]) /\ DetectCell(data_rows[r][c]).kind = "number" }

\* f"=SUM({col_letter}2:{col_letter}{total_row - 1})" for column col
SumFormula(col, first, last) ==
    [kind |-> "formula", fn |-> "SUM", col |-> col, first |-> first,
     last |-> last]

NoTotals == [written |-> FALSE]

\* The totals block: the cells it writes in row len(data_rows) + 2, one for
\* each of the columns 1..len(headers).
Totals(headers, data_rows, with_totals) ==
    LET numeric_cols == NumericCols(data_rows)
        total_row == Len(data_rows) + 2
    IN  IF with_totals /\ data_rows # <<>> /\ numeric_cols # {}
        THEN [written |-> TRUE,
              row |-> total_row,
              cells |->
                 [col_idx \in 1..Len(headers) |->
                     IF col_idx \in numeric_cols
                     THEN SumFormula(col_idx, 2, total_row - 1)
                     ELSE IF col_idx = 1
                     THEN [kind |-> "string", value |-> "TOTAL"]
                     ELSE [kind |-> "blank"]]]
        ELSE NoTotals

\* The worksheet the loop body builds for a block with data lines: row 1 the
\* headers, rows 2.. the data cells, then the totals.
Worksheet(title, data_lines, with_totals) ==
    LET all_rows  == AllRows(data_lines)
        headers   == all_rows[1]
        data_rows == Tail(all_rows)
    IN  [title |-> title,
         headers |-> headers,
         data |-> [r \in 1..Len(data_rows) |->
                      [c \in 1..Len(data_rows[r]) |-> DetectCell(data_rows[r][c])]],
         numeric_cols |-> NumericCols(data_rows),
         totals |-> Totals(headers, data_rows, with_totals)]

\* One iteration of `for block in sheet_blocks`.
ProcessBlock ==
    /\ pc = "sheets"
    /\ block_idx < Len(sheet_blocks)
    /\ block_idx' = block_idx + 1
    /\ LET lines == sheet_blocks[block_idx + 1]
           data_lines == DataLines(lines)
       IN  IF data_lines = <<>>
           THEN UNCHANGED wb
           ELSE wb' = Append(wb, Worksheet(SheetName(lines), data_lines,
                                           include_totals))
    /\ UNCHANGED <<pc, sheet_blocks, include_totals, sheet_names>>
    /\ UNCHANGED <<tool, valves, request, event_emitter, emitted, tmp_exists,
                   posts, stored, file_id, exc, result, resp_status, log>>
    /\ UNCHANGED <<parseVars, pureVars, concVars>>

\* sheet_names = [b.strip().split("\n")[0].replace("===", "").strip() ...]
ListedName(lines) == Strip(RemoveAll(lines[1], TripleEquals))

\* After the loop: wb.save (which refuses a workbook without a sheet), the
\* upload, and the sheet names of the returned string.
SaveAndReturn ==
    /\ pc = "sheets"
    /\ block_idx = Len(sheet_blocks)
    /\ IF wb = <<>>
       THEN /\ pc' = "failed"
            /\ UNCHANGED sheet_names
       ELSE /\ pc' = "returned"
            /\ sheet_names' =
                  [i \in 1..Len(sheet_blocks) |-> ListedName(sheet_blocks[i])]
    /\ UNCHANGED <<sheet_blocks, include_totals, block_idx, wb>>
    /\ UNCHANGED <<tool, valves, request, event_emitter, emitted, tmp_exists,
                   posts, stored, file_id, exc, result, resp_status, log>>
    /\ UNCHANGED <<parseVars, pureVars, concVars>>

NextSheets == ProcessBlock \/ SaveAndReturn

\* A block is block.strip().split("\n") of a non-blank piece of the sheets
\* argument: its first line starts, and its last line ends, with a
\* character that is not a blank.
IsBlock(lines) ==
    /\ lines # <<>>
    /\ lines[1] # <<>> /\ lines[1][1] \notin Whitespace
    /\ LET last == lines[Len(lines)]
       IN  last # <<>> /\ last[Len(last)] \notin Whitespace

\* "S===", "T ===" and a name of 32 characters followed by "==="
ShortNameLine == <<"S">> \o TripleEquals
SpacedNameLine == <<"T", " ">> \o TripleEquals
LongNameLine == [i \in 1..(TitleMax + 1) |-> "n"] \o TripleEquals

\* The lines the one-block sheets of SpecSheet are made of: headers of one
\* and two columns, data rows of one and two cells, a blank line.
SheetLines ==
    { <<"h">>,
      <<"h", ",", "g">>,
      <<"x", ",", "5">>,
      <<"5">>,
      <<"x", "|", "5">>,
      <<" ">> }

SheetBlocks ==
    { b \in { <<ShortNameLine>> \o d : d \in SeqsUpTo(SheetLines, MaxDataLines) } :
         IsBlock(b) }

\* The blocks of SpecWorkbook: three names, each without data lines, with
\* a header only, with a header and a data row.
WorkbookBlocks ==
    { <<n>> \o d : n \in {ShortNameLine, SpacedNameLine, LongNameLine},
                   d \in { <<>>, << <<"h">> >>, << <<"h">>, <<"5">> >> } }

sheetRest ==
    /\ tool = "excel"
    /\ pc = "sheets"
    /\ invIdle
    /\ parseIdle
    /\ pureIdle
    /\ concIdle
    /\ block_idx = 0
    /\ wb = <<>>
    /\ sheet_names = <<>>

InitSheet ==
    /\ sheetRest
    /\ sheet_blocks \in { <<b>> : b \in SheetBlocks }
    /\ include_totals \in BOOLEAN

SpecSheet == InitSheet /\ [][NextSheets]_vars

InitWorkbook ==
    /\ sheetRest
    /\ sheet_blocks \in SeqsUpTo(WorkbookBlocks, MaxBlocks) \ {<<>>}
    /\ include_totals \in BOOLEAN

SpecWorkbook == InitWorkbook /\ [][NextSheets]_vars

-----------------------------------------------------------------------------
(* Claims about one invocation (Spec) *)

\* The request carries no bearer token: no request, no Authorization
\* header, or a header that does not start with "Bearer ".
NoBearerHeader(req) ==
    \/ req.kind # "request"
    \/ ~req.has_auth
    \/ ~StartsWith(req.authorization, BearerPrefix)

AuthMessages == {NoBearerMsg, NotAuthenticatedMsg}

InLog(step) == \E i \in 1..Len(log) : log[i] = step

\* log holds a, then b, then c, in this order
LogOrder(a, b, c) ==
    \E i, j, k \in 1..Len(log) :
        i < j /\ j < k /\ log[i] = a /\ log[j] = b /\ log[k] = c

\* C1: in each of the three tools, a request without a bearer token never
\* leads to a POST, and the invocation that reaches the upload step returns
\* a failure result with an authentication-related message.
C1_NoTokenNoPost ==
    NoBearerHeader(request) =>
        /\ posts = 0
        /\ (pc = "done" /\ InLog("upload_called") =>
               result.type = "failure" /\ result.msg \in AuthMessages)

\* C3: every invocation ends by returning a string (the success string or
\* the marker-prefixed failure string); no exception reaches the caller.
C3_AlwaysReturnsString ==
    pc = "done" =>
        \/ result.type = "success"
        \/ result.type = "failure" /\ result.marker = FailureMarker(tool)

\* C4: at most one POST per invocation; success only if that POST returned
\* an identifier; failure only if no file was stored by this invocation; a
\* non-success HTTP status never ends in the success string.
C4_AllOrNothing ==
    /\ posts <= 1
    /\ pc = "done" =>
          /\ result.type = "success" =>
                posts = 1 /\ resp_status = 200 /\ result.file_id = StoredId
          /\ result.type = "failure" => ~stored
          /\ resp_status \in {401, 500} => result.type # "success"

\* C10: a success string is returned only after the temporary file of the
\* invocation was deleted, and the deletion lies between the return of the
\* upload and the return of the result.
C10_SuccessDeletesTemp ==
    result.type = "success" =>
        /\ ~tmp_exists
        /\ InLog("tmp_create")
        /\ LogOrder("upload_returned", "unlink", "return")

\* C10 witness: an invocation that created its temporary file, uploaded it
\* and returned the success string.
C10_Witness ==
    /\ pc = "done"
    /\ result.type = "success"
    /\ InLog("tmp_create")
    /\ posts = 1

-----------------------------------------------------------------------------
(* Claims about the parse loop (SpecParse, SpecLine) *)

IsBlank(line) == Strip(line) = <<>>

\* a line that starts with "|" and whose every cell holds only dashes,
\* pipes and spaces
IsSeparatorLine(line) ==
    StartsWith(line, <<"|">>) /\ IsSeparatorRow(Cells(line))

\* The kind of a record; a heading's kind tells its level.
KindOf(rec) ==
    IF rec.type = "heading"
    THEN CASE rec.level = 1 -> "heading1"
           [] rec.level = 2 -> "heading2"
           [] rec.level = 3 -> "heading3"
    ELSE rec.type

IsLayout(rec) == rec.type \in {"spacer", "empty_paragraph"}

\* The records of a story with the bullet blocks and tables expanded to one
\* entry per item or row, layout records (spacers) left out: each entry is
\* <<kind, source line>>.
RECURSIVE Expanded(_)
Expanded(st) ==
    IF st = <<>> THEN <<>>
    ELSE LET rec == Head(st)
         IN  (IF IsLayout(rec) THEN <<>>
              ELSE IF rec.type = "table"
                   THEN [i \in 1..Len(rec.srcs) |-> <<"table_row", rec.srcs[i]>>]
                   ELSE << <<KindOf(rec), rec.src>> >>)
             \o Expanded(Tail(st))

ExpandedKinds(st) == [i \in 1..Len(Expanded(st)) |-> Expanded(st)[i][1]]
ExpandedSrcs(st) == [i \in 1..Len(Expanded(st)) |-> Expanded(st)[i][2]]

\* The first rule of a priority list that matches: rules is a sequence of
\* <<matches, kind>>.
FirstMatch(rules) ==
    LET hits == {i \in 1..Len(rules) : rules[i][1]}
    IN  IF hits = {} THEN "none"
        ELSE rules[CHOOSE i \in hits : \A j \in hits : i <= j][2]

IsNumberedLine(line) ==
    /\ Len(line) >= 3
    /\ line[1] \in Digit
    /\ line[2] \in {".", ")"}
    /\ line[3] = " "

Trimmed(line, texts) == Strip(line) \in texts

Dashes == <<"-", "-", "-">>
Stars == <<"*", "*", "*">>
Underscores == <<"_", "_", "_">>
Equals == <<"=", "=", "=">>

\* The rule list as the claim states it, for both tools; "rule" stands for
\* "divider or page-break".
ClaimedRules(line) ==
    << <<StartsWith(line, <<"#", " ">>), "heading1">>,
       <<StartsWith(line, <<"#", "#", " ">>), "heading2">>,
       <<StartsWith(line, <<"#", "#", "#", " ">>), "heading3">>,
       <<StartsWith(line, <<"-", " ">>) \/ StartsWith(line, <<"*", " ">>), "bullet">>,
       <<IsNumberedLine(line), "numbered">>,
       <<IsSeparatorLine(line), "none">>,
       <<StartsWith(line, <<"|">>), "table_row">>,
       <<Trimmed(line, {Dashes, Stars, Underscores, Equals}), "rule">>,
       <<~IsBlank(line), "paragraph">> >>

\* The rule list of create_word_document: "===" is no rule of it.
WordRules(line) ==
    << <<StartsWith(line, <<"#", " ">>), "heading1">>,
       <<StartsWith(line, <<"#", "#", " ">>), "heading2">>,
       <<StartsWith(line, <<"#", "#", "#", " ">>), "heading3">>,
       <<StartsWith(line, <<"-", " ">>) \/ StartsWith(line, <<"*", " ">>), "bullet">>,
       <<IsNumberedLine(line), "numbered">>,
       <<IsSeparatorLine(line), "none">>,
       <<StartsWith(line, <<"|">>), "table_row">>,
       <<Trimmed(line, {Dashes, Stars, Underscores}), "page_break">>,
       <<~IsBlank(line), "paragraph">> >>

\* The rule list of create_pdf: no numbered-list rule, "---" is a divider
\* and "===" a page break; "***" and "___" are no rules of it.
PdfRules(line) ==
    << <<StartsWith(line, <<"#", " ">>), "heading1">>,
       <<StartsWith(line, <<"#", "#", " ">>), "heading2">>,
       <<StartsWith(line, <<"#", "#", "#", " ">>), "heading3">>,
       <<StartsWith(line, <<"-", " ">>) \/ StartsWith(line, <<"*", " ">>), "bullet">>,
       <<IsSeparatorLine(line), "none">>,
       <<StartsWith(line, <<"|">>), "table_row">>,
       <<Trimmed(line, {Dashes}), "divider">>,
       <<Trimmed(line, {Equals}), "page_break">>,
       <<~IsBlank(line), "paragraph">> >>

\* what a one-line content must have put into the document
KindsFor(kind) == IF kind = "none" THEN <<>> ELSE <<kind>>

RuleKind(kind) == IF kind \in {"divider", "page_break"} THEN "rule" ELSE kind

\* C5 as stated: in both tools a line gets the record type of the first
\* matching rule of: heading 1/2/3; bullet; numbered item; table row
\* (separators discarded); trimmed "---", "***", "___" or "===" as divider
\* or page-break; paragraph; a blank line gives no record.
C5_ClaimedClassification ==
    pc = "parsed" /\ Len(content) = 1 =>
        [i \in 1..Len(ExpandedKinds(story)) |-> RuleKind(ExpandedKinds(story)[i])]
            = KindsFor(FirstMatch(ClaimedRules(content[1])))

\* C5 amended: create_word_document classifies by heading 1/2/3; bullet;
\* numbered item; table row (separators discarded); trimmed "---", "***" or
\* "___" as page break; paragraph (so "===" is a paragraph). create_pdf
\* classifies by heading 1/2/3; bullet; table row (separators discarded);
\* trimmed "---" as divider; trimmed "===" as page break; paragraph (so a
\* numbered line, "***" and "___" are paragraphs). A blank line gives no
\* record.
C5_Classification ==
    pc = "parsed" /\ Len(content) = 1 =>
        ExpandedKinds(story) =
            KindsFor(FirstMatch(IF tool = "pdf" THEN PdfRules(content[1])
                                ELSE WordRules(content[1])))

\* C5 witness: create_pdf has parsed a numbered line into a paragraph.
C5_Witness ==
    /\ pc = "parsed"
    /\ tool = "pdf"
    /\ IsNumberedLine(content[1])
    /\ Len(story) = 1
    /\ story[1].type = "paragraph"

\* C6: a blank line is a flush boundary: the rows of one emitted table, and
\* the bullets of one emitted run of bullets, never come from both sides of
\* a blank line.
C6_BlankLineIsFlushBoundary ==
    pc = "parsed" =>
        LET BlankBetween(a, b) == \E k \in (a + 1)..(b - 1) : IsBlank(content[k])
        IN  /\ \A p \in 1..Len(story) :
                  story[p].type = "table" =>
                      \A i \in 1..(Len(story[p].srcs) - 1) :
                          ~BlankBetween(story[p].srcs[i], story[p].srcs[i + 1])
            /\ \A p \in 1..(Len(story) - 1) :
                  story[p].type = "bullet" /\ story[p + 1].type = "bullet" =>
                      ~BlankBetween(story[p].src, story[p + 1].src)

\* the numbers of the lines that are neither blank nor separator rows
RECURSIVE KeptFrom(_, _)
KeptFrom(lines, n) ==
    IF n > Len(lines) THEN <<>>
    ELSE (IF IsBlank(lines[n]) \/ IsSeparatorLine(lines[n]) THEN <<>> ELSE <<n>>)
         \o KeptFrom(lines, n + 1)

KeptLines(lines) == KeptFrom(lines, 1)

NonLayout(st) == SelectSeq(st, LAMBDA rec : ~IsLayout(rec))

\* C7: after the loop and the end-of-input flush, the emitted records
\* (blocks and tables expanded) are the lines that are neither blank nor
\* separator rows, each once and in input order, and create_pdf has nothing
\* pending; the example content gives a heading, two bullets of one block and
\* one table of two rows.
C7_EveryLineOnceInOrder ==
    pc = "parsed" =>
        /\ ExpandedSrcs(story) = KeptLines(content)
        /\ tool = "pdf" => bullet_items = <<>> /\ table_rows = <<>>
        /\ \A p \in 1..Len(story) :
              story[p].type = "table" =>
                  \A i \in 1..Len(story[p].srcs) :
                      story[p].rows[i][1] = Cells(content[story[p].srcs[i]])[1]
        /\ content = ExampleContent =>
              LET recs == NonLayout(story)
              IN  /\ [i \in 1..Len(recs) |-> recs[i].type]
                        = <<"heading", "bullet", "bullet", "table">>
                  /\ recs[2].text = <<"i", "t", "e", "m", " ", "o", "n", "e">>
                  /\ recs[3].text = <<"i", "t", "e", "m", " ", "t", "w", "o">>
                  /\ tool = "pdf" => story[4] = Spacer /\ story[3].type = "bullet"
                  /\ recs[4].rows = << << <<"A">>, <<"B">> >>, << <<"1">>, <<"2">> >> >>

\* C7 witness: the example content, parsed to the end.
C7_Witness ==
    /\ pc = "parsed"
    /\ content = ExampleContent
    /\ Len(NonLayout(story)) = 4

\* the widest row of a pending table
WidestRow(pending) ==
    CHOOSE w \in {Len(pending[r].cells) : r \in 1..Len(pending)} :
        \A r \in 1..Len(pending) : Len(pending[r].cells) <= w

\* C8: a step that flushes a pending table of N rows emits one table of N
\* rows, each as wide as the widest pending row, every pending cell at its
\* place and the missing trailing cells empty; with nothing pending, no
\* table is emitted.
C8_FlushedTableIsRectangular ==
    [][ LET new == SubSeq(story', Len(story) + 1, Len(story'))
            tables == {i \in 1..Len(new) : new[i].type = "table"}
        IN  /\ table_rows = <<>> => tables = {}
            /\ table_rows # <<>> /\ (table_rows' = <<>> \/ pc' = "parsed") =>
                  Cardinality(tables) = 1
            /\ \A i \in tables :
                  LET grid == new[i].rows
                      width == WidestRow(table_rows)
                  IN  /\ Len(grid) = Len(table_rows)
                      /\ \A r \in 1..Len(grid) :
                            /\ Len(grid[r]) = width
                            /\ \A c \in 1..width :
                                  grid[r][c] =
                                      IF c <= Len(table_rows[r].cells)
                                      THEN table_rows[r].cells[c]
                                      ELSE <<>>
      ]_vars

\* C8 witness: an emitted table whose rows came from lines of different
\* cell counts.
C8_Witness ==
    \E p \in 1..Len(story) :
        /\ story[p].type = "table"
        /\ Len(story[p].srcs) >= 2
        /\ \E i, j \in 1..Len(story[p].srcs) :
              Len(Cells(content[story[p].srcs[i]]))
                  < Len(Cells(content[story[p].srcs[j]]))

-----------------------------------------------------------------------------
(* Claims about the filename sanitisation (SpecSanitize) *)

Allowed(c) == c \in WordChar \cup {"-"}

\* The sanitisation as the claim states it: every maximal run of characters
\* outside the class becomes one underscore, then underscores are trimmed.
RECURSIVE CollapseRuns(_)
CollapseRuns(s) ==
    IF s = <<>> THEN <<>>
    ELSE IF Allowed(Head(s)) THEN <<Head(s)>> \o CollapseRuns(Tail(s))
    ELSE IF Len(s) >= 2 /\ ~Allowed(s[2]) THEN CollapseRuns(Tail(s))
    ELSE <<"_">> \o CollapseRuns(Tail(s))

OnlyAllowedNoOuterUnderscore(name) ==
    /\ \A i \in 1..Len(name) : Allowed(name[i])
    /\ name # <<>> => name[1] # "_" /\ name[Len(name)] # "_"

\* C2 as stated: only word characters and hyphens, no leading or trailing
\* underscore, every maximal run of other characters collapsed to a single
\* underscore; "My Report #3!" becomes "My_Report_3".
C2_ClaimedSanitization ==
    pc = "sanitized" =>
        /\ OnlyAllowedNoOuterUnderscore(safe_name)
        /\ safe_name = StripSet(CollapseRuns(filename), {"_"})
        /\ filename = ExampleName =>
              safe_name = <<"M", "y", "_", "R", "e", "p", "o", "r", "t", "_", "3">>

\* C2 amended: the result holds only word characters and hyphens, has no
\* leading or trailing underscore, and is the filename with every single
\* character outside the class replaced by one underscore (a run of k such
\* characters gives k underscores), cut at both ends to the first and last
\* character that is in the class and no underscore; "My Report #3!" becomes
\* "My_Report__3".
C2_Sanitization ==
    pc = "sanitized" =>
        /\ OnlyAllowedNoOuterUnderscore(safe_name)
        /\ \E k \in 0..Len(filename) :
              LET Trimmed_(c) == c = "_" \/ ~Allowed(c)
              IN  /\ k + Len(safe_name) <= Len(filename)
                  /\ \A i \in 1..k : Trimmed_(filename[i])
                  /\ \A i \in (k + Len(safe_name) + 1)..Len(filename) :
                        Trimmed_(filename[i])
                  /\ \A i \in 1..Len(safe_name) :
                        safe_name[i] = IF Allowed(filename[k + i])
                                       THEN filename[k + i] ELSE "_"
        /\ filename = ExampleName =>
              safe_name = <<"M", "y", "_", "R", "e", "p", "o", "r", "t", "_",
                            "_", "3">>

\* C2 witness: a filename with a run of two characters outside the class
\* inside it and one at its end has been sanitised.
C2_Witness ==
    /\ pc = "sanitized"
    /\ filename = ExampleName
    /\ Len(safe_name) = 12

-----------------------------------------------------------------------------
(* Claims about the numeric-cell detection (SpecCell) *)

\* a = b, as decimals
NumEq(a, b) == a.mant * Pow10(b.scale) = b.mant * Pow10(a.scale)

\* C9 as stated: on a successful parse the cell holds the number, with the
\* currency format if "$" was in the text, and with the percentage format
\* and the value divided by 100 if "%" was in the text; otherwise the cell
\* holds the text unchanged.
C9_ClaimedCellDetection ==
    pc = "cell_written" =>
        IF FloatParses(Clean(value))
        THEN /\ cell.kind = "number"
             /\ Contains(value, "$") =>
                   /\ cell.number_format = CurrencyFormat
             /\ Contains(value, "%") =>
                   /\ cell.number_format = PercentFormat
                   /\ NumEq(cell.value, DivideBy100(Float(Clean(value))))
        ELSE cell = [kind |-> "string", value |-> value]

\* C9 amended: on a successful parse the cell holds the number, with the
\* currency format if "$" was in the text; with the percentage format and
\* the value divided by 100 if "%" was in the text and "$" was not; on
\* failure the cell holds the text unchanged. "$1,234.50" gives 1234.50 as
\* currency, "12%" gives 0.12 as percentage, "N/A" stays a string.
C9_CellDetection ==
    pc = "cell_written" =>
        /\ IF FloatParses(Clean(value))
           THEN /\ cell.kind = "number"
                /\ Contains(value, "$") =>
                      /\ cell.number_format = CurrencyFormat
                      /\ NumEq(cell.value, Float(Clean(value)))
                /\ Contains(value, "%") /\ ~Contains(value, "$") =>
                      /\ cell.number_format = PercentFormat
                      /\ NumEq([mant |-> cell.value.mant * 100,
                                scale |-> cell.value.scale],
                               Float(Clean(value)))
                /\ ~Contains(value, "%") /\ ~Contains(value, "$") =>
                      NumEq(cell.value, Float(Clean(value)))
           ELSE cell = [kind |-> "string", value |-> value]
        /\ value = ExampleCurrency =>
              /\ cell.kind = "number"
              /\ NumEq(cell.value, [mant |-> 123450, scale |-> 2])
              /\ cell.number_format = CurrencyFormat
        /\ value = ExamplePercent =>
              /\ cell.kind = "number"
              /\ NumEq(cell.value, [mant |-> 12, scale |-> 2])
              /\ cell.number_format = PercentFormat
        /\ value = ExampleText => cell = [kind |-> "string", value |-> ExampleText]
        /\ cell.kind = "number" =>
              \E i \in 1..Len(value) : value[i] \in Digit

\* C9 witness: a percentage without "$" has been stored as a fraction.
C9_Witness ==
    /\ pc = "cell_written"
    /\ value = ExamplePercent
    /\ cell.kind = "number"
    /\ cell.number_format = PercentFormat

-----------------------------------------------------------------------------
(* Claims about the download link, the events and the temporary file (Spec) *)

\* base is s without its trailing slashes
IsStrippedOf(base, s) ==
    /\ Len(base) <= Len(s)
    /\ SubSeq(s, 1, Len(base)) = base
    /\ \A i \in (Len(base) + 1)..Len(s) : s[i] = "/"
    /\ base = <<>> \/ base[Len(base)] # "/"

\* the path of a download link: the identifier the upload returned, then
\* the sanitised filename with the tool's extension
LinkPath ==
    <<"/api/v1/files/", StoredId, "/content/">>
        \o SafeName(filename) \o Extension(tool)

\* C11: the base of the download link is the WEBUI_BASE_URL valve when it is
\* not empty, else the request's base URL when a request with a base_url is
\* present, else http://localhost:8080; the valve and the request's URL
\* lose their trailing slashes; the link is the base followed by
\* /api/v1/files/<id>/content/<sanitised filename with extension>, with the
\* identifier the upload returned, and the message event carries that link.
C11_DownloadLink ==
    result.type = "success" =>
        LET url  == result.download_url
            base == SubSeq(url, 1, Len(url) - Len(LinkPath))
        IN  /\ Len(url) >= Len(LinkPath)
            /\ url = base \o LinkPath
            /\ InLog("upload_returned")
            /\ result.file_id = StoredId
            /\ IF valves # <<>>
               THEN IsStrippedOf(base, valves)
               ELSE IF request.kind # "none" /\ request.has_base_url
               THEN IsStrippedOf(base, request.base_url)
               ELSE base = LocalFallback
            /\ \A i \in 1..Len(emitted) :
                  emitted[i].type = "message" => emitted[i].content = url

\* C11 witness: the valve is set (with trailing slashes) and the request has
\* a base URL of its own; the invocation succeeded and its link starts with
\* the valve's address.
C11_Witness ==
    /\ pc = "done"
    /\ result.type = "success"
    /\ valves = PublicUrl \o <<"/", "/">>
    /\ request.kind = "request"
    /\ request.base_url = HostUrl \o <<"/">>
    /\ filename = ExampleName
    /\ SubSeq(result.download_url, 1, Len(PublicUrl) + 1)
          = PublicUrl \o <<"/api/v1/files/">>

IsMessage(ev) == ev.type = "message"

IsDoneStatus(ev) ==
    ev.type = "status" /\ ev.done /\ ev.description = "Done"

\* the steps a successful invocation logs: create_pdf creates its temporary
\* file before it builds, the other two after
SuccessLog(t) ==
    (IF t = "pdf" THEN <<"tmp_create", "build">> ELSE <<"build", "tmp_create">>)
        \o <<"upload_called", "post", "upload_returned", "unlink", "return">>

NamedFailures ==
    { NoBearerMsg, NotAuthenticatedMsg, HTTPStatusMsg(401), HTTPStatusMsg(500),
      BuildErrorMsg, SaveErrorMsg }

\* log holds a before b
LogBefore(a, b) ==
    \E i, j \in 1..Len(log) : i < j /\ log[i] = a /\ log[j] = b

\* C16: an invocation that fails after its temporary file was created, for
\* a missing token, an HTTP error of the storage endpoint or an error of the
\* document library, or for any reason before the upload returned, leaves
\* the file on disk; the file is deleted only after the upload returned an
\* identifier.
C16_FailureKeepsTemp ==
    /\ pc = "done" /\ result.type # "success" /\ InLog("tmp_create") =>
          /\ ~InLog("upload_returned") => tmp_exists
          /\ result.type = "failure" /\ result.msg \in NamedFailures =>
                tmp_exists /\ ~InLog("unlink")
    /\ InLog("tmp_create") /\ ~tmp_exists =>
          LogBefore("upload_returned", "unlink") /\ file_id = StoredId
    /\ tmp_exists <=> (InLog("tmp_create") /\ ~InLog("unlink"))

\* C16 witness: the storage endpoint answered 500 to the POST of a file that
\* had been created; the failure string is returned and the file is still
\* there.
C16_Witness ==
    /\ pc = "done"
    /\ result.type = "failure"
    /\ result.msg = HTTPStatusMsg(500)
    /\ InLog("tmp_create")
    /\ InLog("post")
    /\ tmp_exists

-----------------------------------------------------------------------------
(* Claims about the pending lists of create_pdf (SpecParse) *)

IsBulletLine(line) ==
    StartsWith(line, <<"-", " ">>) \/ StartsWith(line, <<"*", " ">>)

IsTableLine(line) == StartsWith(line, <<"|">>)

\* the records a step has appended to the story
Appended == SubSeq(story', Len(story) + 1, Len(story'))

\* C15: in create_pdf the pending bullets and the pending table rows are
\* never both non-empty. A bullet line empties the pending table into the
\* story (one table of all its rows) and is appended to the bullets; a line
\* that starts with "|", a discarded separator row included, empties the
\* pending bullets into the story; every other non-blank line empties both.
C15_PendingExclusive ==
    [][ tool = "pdf" =>
          /\ ~(bullet_items' # <<>> /\ table_rows' # <<>>)
          /\ idx' = idx + 1 =>
                LET line == content[idx + 1]
                IN  /\ IsBulletLine(line) =>
                          /\ table_rows' = <<>>
                          /\ Len(bullet_items') = Len(bullet_items) + 1
                          /\ bullet_items'[Len(bullet_items')].src = idx + 1
                          /\ table_rows # <<>> =>
                                /\ Len(Appended) = 2
                                /\ Appended[1].type = "table"
                                /\ Appended[1].srcs = RowSrcs(table_rows)
                    /\ IsTableLine(line) =>
                          /\ bullet_items' = <<>>
                          /\ Len(Appended) =
                                IF bullet_items = <<>> THEN 0
                                ELSE Len(bullet_items) + 1
                          /\ \A i \in 1..Len(bullet_items) :
                                /\ Appended[i].type = "bullet"
                                /\ Appended[i].src = bullet_items[i].src
                    /\ ~IsBulletLine(line) /\ ~IsTableLine(line)
                          /\ ~IsBlank(line) =>
                          /\ bullet_items' = <<>>
                          /\ table_rows' = <<>>
                          /\ Len(Appended) > 0
      ]_vars

\* C15 witness: create_pdf holds pending bullets and has already emitted a
\* table, after a pending bullet block too: bullets, table and bullets
\* followed each other in the content.
C15_Witness ==
    /\ tool = "pdf"
    /\ pc = "parse"
    /\ bullet_items # <<>>
    /\ table_rows = <<>>
    /\ \E i, j \in 1..Len(story) :
          i < j /\ story[i].type = "bullet" /\ story[j].type = "table"

-----------------------------------------------------------------------------
(* Claims about two interleaved invocations (SpecConc) *)

\* What an invocation with the arguments and the endpoint's answer of frame
\* f raises when it runs alone ("" when it succeeds): the token test comes
\* before the POST.
AloneError(t, f) ==
    IF ChecksToken(t) /\ GetToken(f.request) = <<>> THEN NoBearerMsg
    ELSE UploadError(t, f.status)

\* The events it emits when it runs alone, url being its download link.
AloneEvents(t, f, url) ==
    IF f.event_emitter = "none" THEN <<>>
    ELSE << StatusEvent(BuildingText(t), FALSE),
            StatusEvent(UploadingText(t), FALSE) >>
         \o (IF AloneError(t, f) = ""
             THEN << StatusEvent("Done", TRUE), MessageEvent(url) >>
             ELSE IF HandlerEmits(t)
             THEN << StatusEvent(<<"Error", AloneError(t, f)>>, TRUE) >>
             ELSE <<>>)

\* The one-invocation model, when neither the emitter nor the libraries
\* raise, returns and emits what AloneError and AloneEvents say.
AloneAgreesWithSpec ==
    /\ pc = "done"
    /\ result.type # "raised"
    /\ exc \notin {EmitterErrorMsg, BuildErrorMsg, SaveErrorMsg, UnlinkErrorMsg}
    => LET f == [request |-> request, event_emitter |-> event_emitter,
                 status |-> resp_status]
       IN  IF AloneError(tool, f) = ""
           THEN /\ result.type = "success"
                /\ emitted = AloneEvents(tool, f, result.download_url)
           ELSE /\ result = FailureResult(tool, AloneError(tool, f))
                /\ emitted = AloneEvents(tool, f, <<>>)

\* the positions at which an invocation has its temporary file on disk and
\* has not yet deleted it
HoldsFile(p) ==
    calls[p].pc \in {"emit_uploading", "upload", "posted", "unlink"}

\* Invocation p is not disturbed by the other one.
Undisturbed(p) ==
    LET f   == calls[p]
        own == ParseAll(tool, f.content)
    IN  /\ f.pc \notin {"start", "build"} => f.locals = own
        /\ HoldsFile(p) =>
              /\ FilesAt(disk, f.tmp_path)
                    = {[path |-> f.tmp_path, document |-> own.story]}
              /\ \A q \in Invocation \ {p} :
                    HoldsFile(q) => calls[q].tmp_path # f.tmp_path
        /\ f.pc = "posted" => f.body = own.story
        /\ f.pc = "done" =>
              IF AloneError(tool, f) = ""
              THEN /\ f.result.type = "success"
                   /\ \E i \in 1..Len(storage) :
                         /\ storage[i] = [by |-> p, body |-> own.story]
                         /\ f.result.file_id = ServerIds[i]
                   /\ f.result.download_url =
                         DownloadUrl(GetPublicBaseUrl(valves, f.request),
                                     f.result.file_id, SafeName(f.filename),
                                     tool)
                   /\ f.emitted = AloneEvents(tool, f, f.result.download_url)
              ELSE /\ f.result = FailureResult(tool, AloneError(tool, f))
                   /\ f.emitted = AloneEvents(tool, f, <<>>)

\* C13: two invocations of one tool on one instance, interleaved at their
\* awaits, do not interfere: each has a temporary file of its own holding
\* its own document, its own story and pending lists, uploads its own
\* document, and returns and emits what it would alone; no step writes the
\* configuration value, and a step of one invocation leaves the frame of
\* the other as it is.
C13_NoInterference ==
    /\ [](\A p \in Invocation : Undisturbed(p))
    /\ [][ /\ valves' = valves
           /\ \E p \in Invocation :
                 \A q \in Invocation \ {p} : calls'[q] = calls[q]
         ]_vars

\* C13 witness: invocation 2 had its upload stored first and is still
\* before its os.unlink, while invocation 1, with another content, went
\* past it and has returned its success string.
C13_Witness ==
    /\ pc = "calls"
    /\ calls[1].pc = "done"
    /\ calls[1].result.type = "success"
    /\ calls[1].file_id = ServerIds[2]
    /\ calls[2].pc = "unlink"
    /\ calls[1].content # calls[2].content
    /\ calls[1].event_emitter = "present"

-----------------------------------------------------------------------------
(* Claims about the sheets of create_spreadsheet (SpecSheet, SpecWorkbook) *)

\* the columns of a worksheet in which a data cell is a number
NumericColumnsOf(ws) ==
    { c \in UNION {1..Len(ws.data[r]) : r \in 1..Len(ws.data)} :
         \E r \in 1..Len(ws.data) :
            c <= Len(ws.data[r]) /\ ws.data[r][c].kind = "number" }

\* C14: with include_totals, in every sheet with at least one data row,
\* every column with a numeric data cell has, in the row below the last data
\* row, a SUM formula over the rows 2 to the last data row; without
\* include_totals, or without a numeric column, no totals row is written.
C14_TotalsRow ==
    \A i \in 1..Len(wb) :
        LET ws == wb[i]
            n  == Len(ws.data)
        IN  n >= 1 =>
              /\ include_totals =>
                    \A c \in NumericColumnsOf(ws) :
                        /\ ws.totals.written
                        /\ ws.totals.row = n + 2
                        /\ c \in DOMAIN ws.totals.cells
                        /\ ws.totals.cells[c] = SumFormula(c, 2, n + 1)
              /\ ~include_totals \/ NumericColumnsOf(ws) = {} =>
                    ~ws.totals.written

\* C17: the sheet names listed in the returned string are the titles of the
\* sheets created in the workbook, in the same order.
C17_ListedNamesAreTitles ==
    pc = "returned" =>
        sheet_names = [i \in 1..Len(wb) |-> wb[i].title]

=============================================================================
